---- MODULE Spec2Model ----
(***************************************************************************)
(* arkencrab: the update / prefs-clean commands of src/main.rs, the        *)
(* profile lookup of src/profiles.rs and the override edit workflow.       *)
(* Documents are TLA+ strings; TLC evaluates Len, \o and SubSeq on them,   *)
(* so every text operation below works character by character.             *)
(***************************************************************************)
EXTENDS Integers, Sequences, FiniteSets, TLC

(***************************************************************************)
(* Text primitives (Rust str / regex semantics)                            *)
(***************************************************************************)

\* The character of s at 1-based index i, "" outside the string.
CharAt(s, i) == IF i >= 1 /\ i <= Len(s) THEN SubSeq(s, i, i) ELSE ""

\* regex \s on the characters the documents use
IsSpace(c) == c \in {" ", "\n", "\r", "\t"}

\* regex \d
IsDigit(c) == c \in {"0", "1", "2", "3", "4", "5", "6", "7", "8", "9"}

\* s[i..] starts with pat
StartsAt(s, i, pat) == i >= 1 /\ i + Len(pat) - 1 <= Len(s) /\ SubSeq(s, i, i + Len(pat) - 1) = pat

\* str::contains
Contains(s, pat) == \E i \in 1..(Len(s) + 1) : StartsAt(s, i, pat)

\* str::starts_with
StartsWith(s, pat) == StartsAt(s, 1, pat)

\* str::ends_with
EndsWith(s, pat) == StartsAt(s, Len(s) - Len(pat) + 1, pat)

\* str::replace: leftmost non-overlapping occurrences of a non-empty pattern
RECURSIVE Replace(_, _, _)
Replace(s, from, to) ==
  IF Len(s) < Len(from) THEN s
  ELSE IF StartsAt(s, 1, from)
       THEN to \o Replace(SubSeq(s, Len(from) + 1, Len(s)), from, to)
       ELSE SubSeq(s, 1, 1) \o Replace(SubSeq(s, 2, Len(s)), from, to)

\* index of the first "\n" at or after i, Len(s)+1 when there is none
RECURSIVE NextNewline(_, _)
NextNewline(s, i) ==
  IF i > Len(s) THEN Len(s) + 1
  ELSE IF CharAt(s, i) = "\n" THEN i ELSE NextNewline(s, i + 1)

\* str::lines: split after each "\n"; a terminated piece loses its "\n" and then
\* one "\r"; an unterminated last piece is returned as it is; "" has no line.
RECURSIVE Lines(_)
Lines(s) ==
  IF Len(s) = 0 THEN << >>
  ELSE LET n == NextNewline(s, 1) IN
       IF n > Len(s) THEN << s >>
       ELSE LET piece == SubSeq(s, 1, n - 1)
                line == IF EndsWith(piece, "\r") THEN SubSeq(piece, 1, Len(piece) - 1) ELSE piece
            IN << line >> \o Lines(SubSeq(s, n + 1, Len(s)))

\* [&str]::join
RECURSIVE Join(_, _)
Join(v, sep) ==
  IF Len(v) = 0 THEN ""
  ELSE IF Len(v) = 1 THEN v[1]
  ELSE v[1] \o sep \o Join(Tail(v), sep)

\* first index at or after i that holds no whitespace (the greedy \s*)
RECURSIVE SkipSpace(_, _)
SkipSpace(s, i) == IF i <= Len(s) /\ IsSpace(CharAt(s, i)) THEN SkipSpace(s, i + 1) ELSE i

\* first index at or after i that holds no digit (the greedy \d+)
RECURSIVE SkipDigits(_, _)
SkipDigits(s, i) == IF i <= Len(s) /\ IsDigit(CharAt(s, i)) THEN SkipDigits(s, i + 1) ELSE i

\* multi-line ^ : the start of the text or just after a "\n"
LineStart(s, i) == i = 1 \/ CharAt(s, i - 1) = "\n"

None == << >>

Some(x) == << x >>


(***************************************************************************)
(* Pattern matching of src/main.rs                                         *)
(***************************************************************************)

\* REGEX_VERSION  ^\*\s*version:\s*(\d+)  tried at index i: Some(capture) or None
VersionMatchAt(s, i) ==
  IF ~(LineStart(s, i) /\ CharAt(s, i) = "*") THEN None
  ELSE LET j == SkipSpace(s, i + 1) IN
       IF ~StartsAt(s, j, "version:") THEN None
       ELSE LET k == SkipSpace(s, j + 8)
                d == SkipDigits(s, k)
            IN IF d > k THEN Some(SubSeq(s, k, d - 1)) ELSE None

\* Regex::captures: the leftmost match at or after index i
RECURSIVE VersionCaptures(_, _)
VersionCaptures(s, i) ==
  IF i > Len(s) THEN None
  ELSE IF VersionMatchAt(s, i) # None THEN VersionMatchAt(s, i)
  ELSE VersionCaptures(s, i + 1)

\* find_version
find_version(user_js) ==
  LET c == VersionCaptures(user_js, 1) IN IF c = None THEN "unknown" ELSE c[1]

\* index of the closing quote of the lazy (".*?"), : the first quote at or after i
\* that a comma follows, with no "\n" before it; 0 when there is none
RECURSIVE KeyEnd(_, _)
KeyEnd(s, i) ==
  IF i > Len(s) \/ CharAt(s, i) = "\n" THEN 0
  ELSE IF CharAt(s, i) = "\"" /\ CharAt(s, i + 1) = "," THEN i
  ELSE KeyEnd(s, i + 1)

\* REGEX_USER_PREF  ^\s*user_pref\((".*?"),  tried at index i:
\* Some(<<captured key with its quotes, index of the last matched character>>) or None
UserPrefMatchAt(s, i) ==
  IF ~LineStart(s, i) THEN None
  ELSE LET j == SkipSpace(s, i) IN
       IF ~StartsAt(s, j, "user_pref(\"") THEN None
       ELSE LET q == j + 10
                e == KeyEnd(s, q + 1)
            IN IF e = 0 THEN None ELSE Some(<< SubSeq(s, q, e), e + 1 >>)

\* Regex::captures_iter collected into a HashSet: successive leftmost
\* non-overlapping matches from index i on
RECURSIVE UserPrefKeysFrom(_, _)
UserPrefKeysFrom(s, i) ==
  IF i > Len(s) THEN {}
  ELSE LET m == UserPrefMatchAt(s, i) IN
       IF m = None THEN UserPrefKeysFrom(s, i + 1)
       ELSE {m[1][1]} \cup UserPrefKeysFrom(s, m[1][2] + 1)

user_pref_keys(user) == UserPrefKeysFrom(user, 1)

\* a tokenized comparison instead of containment: the line's own key is a collected key
IsDiscardedByOwnKey(keys, l) == \E k \in keys : StartsWith(l, "user_pref(" \o k)

\* the partition predicate  |l| user_pref_keys.iter().any(|k| l.contains(k))
IsDiscarded(keys, l) == \E k \in keys : Contains(l, k)

\* Iterator::partition: the sub-sequence of v whose elements satisfy / fail the predicate
RECURSIVE Discarded(_, _)
Discarded(keys, v) ==
  IF Len(v) = 0 THEN << >>
  ELSE (IF IsDiscarded(keys, Head(v)) THEN << Head(v) >> ELSE << >>) \o Discarded(keys, Tail(v))

\* the two halves of the partition taken in the wrong order
KeptSwapped(keys, v) == Discarded(keys, v)

RECURSIVE Kept(_, _)
Kept(keys, v) ==
  IF Len(v) = 0 THEN << >>
  ELSE (IF IsDiscarded(keys, Head(v)) THEN << >> ELSE << Head(v) >>) \o Kept(keys, Tail(v))

\* new_prefs.join("\n") + "\n"
RejoinPrefs(kept) == Join(kept, "\n") \o "\n"

\* str::replacen(.., 1): only the first occurrence is replaced
RECURSIVE ReplaceFirst(_, _, _)
ReplaceFirst(s, from, to) ==
  IF Len(s) < Len(from) THEN s
  ELSE IF StartsAt(s, 1, from)
       THEN to \o SubSeq(s, Len(from) + 1, Len(s))
       ELSE SubSeq(s, 1, 1) \o ReplaceFirst(SubSeq(s, 2, Len(s)), from, to)

RewriteFirstEsr(t) == ReplaceFirst(t, "/* ESR", "// ESR")

\* the ESR rewrite  new_user.replace("/* ESR", "// ESR")
rewrite_esr(t) == Replace(t, "/* ESR", "// ESR")

\* new_user += "\n"; new_user += &overrides
AppendOverrides(doc, ov) == doc \o "\n" \o ov

\* the suffix printed after the versions: (unchanged), (changed) or nothing
StatusSuffix(old_version, new_version, old_doc, new_doc) ==
  IF old_version = new_version
  THEN (IF old_doc = new_doc THEN "unchanged" ELSE "changed")
  ELSE ""

(***************************************************************************)
(* Bounds and input vocabularies                                           *)
(***************************************************************************)

\* commands run one after the other
MaxRuns == 2

\* the clock (seconds) runs over 0..MaxClock
MaxClock == 1

\* lines of an initial prefs.js
MaxPrefLines == 2

V127 == "* version: 127\n"

V128 == "* version: 128\n"

PrefA == "user_pref(\"a\", 1);"

PrefB == "user_pref(\"b\", 2);"

\* a statement of another key whose value is the text "a"
PrefC == "user_pref(\"c\", \"a\");"

\* bodies the template URL can answer with
Templates ==
  { V128 \o PrefA \o "\n",
    V128 \o "/* ESR enable */\n" \o PrefA \o "\n",
    PrefB \o "\n" }

\* contents of user.js before the first command
InitialUserJs == { None, Some(V127 \o PrefA \o "\n"), Some(V128 \o PrefA \o "\n") }

\* contents of user-overrides.js
InitialOverrides == { None, Some(V128 \o PrefB \o "\n") }

\* the store of the reconciliation scenario
TwoPrefs == PrefA \o "\n" \o PrefB \o "\n"

PrefLineVocab == { PrefA, PrefB, PrefC, "\r" }

PrefLineSeqs == UNION { [1..n -> PrefLineVocab] : n \in 0..MaxPrefLines }

\* contents of prefs.js before the first command: absent, or lines joined by
\* "\n", with or without the final line ending
InitialPrefs ==
  { None } \cup { Some(Join(v, "\n") \o e) : v \in PrefLineSeqs, e \in {"", "\n"} }

FileNames == { "user.js", "user-overrides.js", "prefs.js" }

BackupDirs == { "userjs_backups", "prefsjs_backups" }

(***************************************************************************)
(* State                                                                   *)
(***************************************************************************)

VARIABLES
  fs,         \* the profile directory: files, dirs, backups
  fs0,        \* fs as it was when the running command started
  clock,      \* what now() returns
  runs,       \* commands started
  pc,         \* position of the running command
  cmd,        \* the command and its flags
  l,          \* the command's local variables
  err,        \* why the command aborted
  last_read,  \* path and io outcome of the latest fs::read_to_string
  report,     \* what the command printed last
  hist,       \* the two latest completed prefs-clean runs, latest first
  template,   \* a template body handed to the ESR rewrite
  rewritten,  \* the results of rewriting it once, twice
  ini,        \* a parsed profiles.ini: its sections in file order
  found       \* what the two copies of default_profile_path_in returned for it

vars == << fs, fs0, clock, runs, pc, cmd, l, err, last_read, report, hist,
           template, rewritten, ini, found >>

\* the state of the commands
cmdVars == << fs, fs0, clock, runs, pc, cmd, l, err, last_read, report, hist >>

esrVars == << template, rewritten >>

iniVars == << ini, found >>

NoLocals ==
  [ existing_user |-> "", existing_version |-> "", backup |-> 0, new_user |-> "",
    this_version |-> "", user |-> "", existing_prefs |-> "", new_prefs |-> "",
    discarded_prefs |-> 0 ]

NoCmd == [ name |-> "none", no_overrides |-> FALSE, esr |-> FALSE ]

NoReport == [ kind |-> "none", old |-> "", new |-> "", status |-> "", removed |-> 0 ]

NoRead == [ path |-> "", kind |-> "none" ]

\* a profile directory holding the three files and no backup
Profile(u, o, p) ==
  [ files |-> [ f \in FileNames |->
                  IF f = "user.js" THEN u
                  ELSE IF f = "user-overrides.js" THEN o ELSE p ],
    dirs |-> {},
    backups |-> [ d \in BackupDirs |-> [ t \in 0..MaxClock |-> None ] ] ]

\* no command is running
Idle ==
  /\ fs0 = fs
  /\ clock = 0
  /\ runs = 0
  /\ pc = "idle"
  /\ cmd = NoCmd
  /\ l = NoLocals
  /\ err = ""
  /\ last_read = NoRead
  /\ report = NoReport
  /\ hist = << >>

NoEsr == template = "" /\ rewritten = << >>

NoIni == ini = << >> /\ found = [ profiles |-> None, main |-> None ]

Init ==
  /\ \E u \in InitialUserJs, o \in InitialOverrides, p \in { None, Some(TwoPrefs) } :
       fs = Profile(u, o, p)
  /\ Idle
  /\ NoEsr
  /\ NoIni

(***************************************************************************)
(* Filesystem                                                              *)
(***************************************************************************)

\* what fs::read_to_string can return for a path: the content of a file that
\* exists, NotFound for one that does not, or another io error in either case
ReadOutcomes(path) ==
  (IF fs.files[path] = None
   THEN { [ kind |-> "notfound", text |-> "" ] }
   ELSE { [ kind |-> "ok", text |-> fs.files[path][1] ] })
  \cup { [ kind |-> "error", text |-> "" ] }

\* a plain fs::read_to_string(path)? : every io error is returned
ReadStringNoDefault(r) ==
  IF r.kind = "ok" THEN [ ok |-> TRUE, val |-> r.text ] ELSE [ ok |-> FALSE, val |-> "" ]

\* read_string_with_default on an io outcome: Ok(text) or Err
read_string_with_default(r) ==
  IF r.kind = "ok" THEN [ ok |-> TRUE, val |-> r.text ]
  ELSE IF r.kind = "notfound" THEN [ ok |-> TRUE, val |-> "" ]
  ELSE [ ok |-> FALSE, val |-> "" ]

\* fs::create_dir_all(dir); fs::write(dir/<name>.backup.<stamp>, content)
WriteBackup(dir, stamp, content) ==
  [ fs EXCEPT !.dirs = @ \cup {dir}, !.backups[dir][stamp] = Some(content) ]

\* fs::write(profile.join(name), content)
WriteFile(name, content) == [ fs EXCEPT !.files[name] = Some(content) ]

Abort(why) == pc' = "aborted" /\ err' = why

(***************************************************************************)
(* The clock and the command line                                          *)
(***************************************************************************)

\* a second passes between two invocations
Tick ==
  /\ pc = "idle"
  /\ clock < MaxClock
  /\ clock' = clock + 1
  /\ UNCHANGED << fs, fs0, runs, pc, cmd, l, err, last_read, report, hist, esrVars, iniVars >>

\* Command::Update { no_overrides, esr }
UpdateStart ==
  /\ pc = "idle"
  /\ runs < MaxRuns
  /\ \E n \in BOOLEAN, e \in BOOLEAN :
       cmd' = [ name |-> "update", no_overrides |-> n, esr |-> e ]
  /\ pc' = "update_read"
  /\ runs' = runs + 1
  /\ fs0' = fs
  /\ l' = NoLocals
  /\ err' = ""
  /\ last_read' = NoRead
  /\ report' = NoReport
  /\ UNCHANGED << fs, clock, hist, esrVars, iniVars >>

\* existing_user = read_string_with_default(user.js)?; existing_version = find_version(..)
UpdateReadExisting ==
  /\ pc = "update_read"
  /\ \E r \in ReadOutcomes("user.js") :
       /\ last_read' = [ path |-> "user.js", kind |-> r.kind ]
       /\ LET res == read_string_with_default(r) IN
          IF res.ok
          THEN /\ l' = [ l EXCEPT !.existing_user = res.val,
                                  !.existing_version = find_version(res.val) ]
               /\ pc' = "update_backup"
               /\ err' = err
          ELSE /\ Abort("read")
               /\ l' = l
  /\ UNCHANGED << fs, fs0, clock, runs, cmd, report, hist, esrVars, iniVars >>

\* the update command without its backup step
UpdateBackupSkipped ==
  /\ pc = "update_backup"
  /\ pc' = "update_fetch"
  /\ UNCHANGED << fs, fs0, clock, runs, cmd, l, err, last_read, report, hist, esrVars, iniVars >>

\* backup = userjs_backups/user.js.backup.<now()>; create_dir_all; write(backup, existing_user)
UpdateBackup ==
  /\ pc = "update_backup"
  /\ l' = [ l EXCEPT !.backup = clock ]
  /\ fs' = WriteBackup("userjs_backups", clock, l.existing_user)
  /\ pc' = "update_fetch"
  /\ UNCHANGED << fs0, clock, runs, cmd, err, last_read, report, hist, esrVars, iniVars >>

\* fs::create_dir_all(dir)? fails, or it succeeds and fs::write(&backup, ..)? fails
BackupFails(dir) == fs' = fs \/ fs' = [ fs EXCEPT !.dirs = @ \cup {dir} ]

\* fs::write(path, ..)? fails: the file is as it was, or File::create has emptied it
WriteFails(name) ==
  fs' = fs \/ (fs.files[name] # None /\ fs' = [ fs EXCEPT !.files[name] = Some("") ])

UpdateBackupFail ==
  /\ pc = "update_backup"
  /\ BackupFails("userjs_backups")
  /\ Abort("backup")
  /\ UNCHANGED << fs0, clock, runs, cmd, l, last_read, report, hist, esrVars, iniVars >>

\* http.get(USER_JS_URL).send()?.error_for_status()?.text()? answers with a body
UpdateFetch ==
  /\ pc = "update_fetch"
  /\ \E t \in Templates :
       l' = [ l EXCEPT !.new_user = t, !.this_version = find_version(t) ]
  /\ pc' = "update_merge"
  /\ UNCHANGED << fs, fs0, clock, runs, cmd, err, last_read, report, hist, esrVars, iniVars >>

\* the request fails, or the status is not 2xx
UpdateFetchFail ==
  /\ pc = "update_fetch"
  /\ Abort("fetch")
  /\ UNCHANGED << fs, fs0, clock, runs, cmd, l, last_read, report, hist, esrVars, iniVars >>

\* if esr { replace }; if !no_overrides { read user-overrides.js; append }
UpdateMerge ==
  /\ pc = "update_merge"
  /\ LET base == IF cmd.esr THEN rewrite_esr(l.new_user) ELSE l.new_user IN
     IF cmd.no_overrides
     THEN /\ l' = [ l EXCEPT !.new_user = base ]
          /\ pc' = "update_write"
          /\ UNCHANGED << err, last_read >>
     ELSE \E r \in ReadOutcomes("user-overrides.js") :
            /\ last_read' = [ path |-> "user-overrides.js", kind |-> r.kind ]
            /\ LET res == read_string_with_default(r) IN
               IF res.ok
               THEN /\ l' = [ l EXCEPT !.new_user = AppendOverrides(base, res.val) ]
                    /\ pc' = "update_write"
                    /\ err' = err
               ELSE /\ Abort("read")
                    /\ l' = l
  /\ UNCHANGED << fs, fs0, clock, runs, cmd, report, hist, esrVars, iniVars >>

\* fs::write(profile.join("user.js"), &new_user)?
UpdateWrite ==
  /\ pc = "update_write"
  /\ fs' = WriteFile("user.js", l.new_user)
  /\ pc' = "update_report"
  /\ UNCHANGED << fs0, clock, runs, cmd, l, err, last_read, report, hist, esrVars, iniVars >>

\* fs::write(profile.join("user.js"), &new_user)? fails
UpdateWriteFail ==
  /\ pc = "update_write"
  /\ WriteFails("user.js")
  /\ Abort("write")
  /\ UNCHANGED << fs0, clock, runs, cmd, l, last_read, report, hist, esrVars, iniVars >>

\* println!("updated arkenfox v{} -> v{}{}")
UpdateReport ==
  /\ pc = "update_report"
  /\ report' = [ kind |-> "updated", old |-> l.existing_version, new |-> l.this_version,
                 status |-> StatusSuffix(l.existing_version, l.this_version,
                                         l.existing_user, l.new_user),
                 removed |-> 0 ]
  /\ pc' = "done"
  /\ UNCHANGED << fs, fs0, clock, runs, cmd, l, err, last_read, hist, esrVars, iniVars >>

\* Command::PrefsClean
PrefsCleanStart ==
  /\ pc = "idle"
  /\ runs < MaxRuns
  /\ cmd' = [ name |-> "prefs-clean", no_overrides |-> FALSE, esr |-> FALSE ]
  /\ pc' = "clean_read_user"
  /\ runs' = runs + 1
  /\ fs0' = fs
  /\ l' = NoLocals
  /\ err' = ""
  /\ last_read' = NoRead
  /\ report' = NoReport
  /\ UNCHANGED << fs, clock, hist, esrVars, iniVars >>

\* user = read_string_with_default(user.js)?
PrefsCleanReadUser ==
  /\ pc = "clean_read_user"
  /\ \E r \in ReadOutcomes("user.js") :
       /\ last_read' = [ path |-> "user.js", kind |-> r.kind ]
       /\ LET res == read_string_with_default(r) IN
          IF res.ok
          THEN /\ l' = [ l EXCEPT !.user = res.val ]
               /\ pc' = "clean_read_prefs"
               /\ err' = err
          ELSE /\ Abort("read")
               /\ l' = l
  /\ UNCHANGED << fs, fs0, clock, runs, cmd, report, hist, esrVars, iniVars >>

\* existing_prefs = read_string_with_default(prefs.js)?
PrefsCleanReadPrefs ==
  /\ pc = "clean_read_prefs"
  /\ \E r \in ReadOutcomes("prefs.js") :
       /\ last_read' = [ path |-> "prefs.js", kind |-> r.kind ]
       /\ LET res == read_string_with_default(r) IN
          IF res.ok
          THEN /\ l' = [ l EXCEPT !.existing_prefs = res.val ]
               /\ pc' = "clean_backup"
               /\ err' = err
          ELSE /\ Abort("read")
               /\ l' = l
  /\ UNCHANGED << fs, fs0, clock, runs, cmd, report, hist, esrVars, iniVars >>

\* backup = prefsjs_backups/prefs.js.backup.<now()>; create_dir_all; write(backup, existing_prefs)
PrefsCleanBackup ==
  /\ pc = "clean_backup"
  /\ l' = [ l EXCEPT !.backup = clock ]
  /\ fs' = WriteBackup("prefsjs_backups", clock, l.existing_prefs)
  /\ pc' = "clean_filter"
  /\ UNCHANGED << fs0, clock, runs, cmd, err, last_read, report, hist, esrVars, iniVars >>

PrefsCleanBackupFail ==
  /\ pc = "clean_backup"
  /\ BackupFails("prefsjs_backups")
  /\ Abort("backup")
  /\ UNCHANGED << fs0, clock, runs, cmd, l, last_read, report, hist, esrVars, iniVars >>

\* collect the keys of user, partition the lines of existing_prefs, rejoin the kept ones
PrefsCleanFilter ==
  /\ pc = "clean_filter"
  /\ LET keys == user_pref_keys(l.user)
         lines == Lines(l.existing_prefs)
     IN l' = [ l EXCEPT !.discarded_prefs = Len(Discarded(keys, lines)),
                        !.new_prefs = RejoinPrefs(Kept(keys, lines)) ]
  /\ pc' = "clean_write"
  /\ UNCHANGED << fs, fs0, clock, runs, cmd, err, last_read, report, hist, esrVars, iniVars >>

\* fs::write(profile.join("prefs.js"), &new_prefs)?; println!("removed {} redundant prefs")
PrefsCleanWrite ==
  /\ pc = "clean_write"
  /\ fs' = WriteFile("prefs.js", l.new_prefs)
  /\ report' = [ kind |-> "removed", old |-> "", new |-> "", status |-> "",
                 removed |-> l.discarded_prefs ]
  /\ hist' = << [ user |-> l.user, read |-> l.existing_prefs,
                  written |-> l.new_prefs, removed |-> l.discarded_prefs ] >>
             \o (IF hist = << >> THEN << >> ELSE << hist[1] >>)
  /\ pc' = "done"
  /\ UNCHANGED << fs0, clock, runs, cmd, l, err, last_read, esrVars, iniVars >>

\* fs::write(profile.join("prefs.js"), &new_prefs)? fails
PrefsCleanWriteFail ==
  /\ pc = "clean_write"
  /\ WriteFails("prefs.js")
  /\ Abort("write")
  /\ UNCHANGED << fs0, clock, runs, cmd, l, last_read, report, hist, esrVars, iniVars >>

\* main returns Ok(()) or the error; the process and all it held are gone
Exit ==
  /\ pc \in { "done", "aborted" }
  /\ pc' = "idle"
  /\ l' = NoLocals
  /\ cmd' = NoCmd
  /\ err' = ""
  /\ last_read' = NoRead
  /\ report' = NoReport
  /\ fs0' = fs
  /\ UNCHANGED << fs, clock, runs, hist, esrVars, iniVars >>

Next ==
  \/ Tick
  \/ UpdateStart \/ UpdateReadExisting \/ UpdateBackup \/ UpdateBackupFail
  \/ UpdateFetch \/ UpdateFetchFail \/ UpdateMerge \/ UpdateWrite \/ UpdateWriteFail
  \/ UpdateReport
  \/ PrefsCleanStart \/ PrefsCleanReadUser \/ PrefsCleanReadPrefs
  \/ PrefsCleanBackup \/ PrefsCleanBackupFail \/ PrefsCleanFilter
  \/ PrefsCleanWrite \/ PrefsCleanWriteFail
  \/ Exit

\* update and prefs-clean, run one after the other on one profile directory
Spec == Init /\ [][Next]_vars

\* a profile whose user.js is absent or a template, with any of the stores
InitClean ==
  /\ \E u \in { None } \cup { Some(t) : t \in Templates }, p \in InitialPrefs :
       fs = Profile(u, None, p)
  /\ Idle
  /\ NoEsr
  /\ NoIni

NextClean ==
  \/ Tick
  \/ PrefsCleanStart \/ PrefsCleanReadUser \/ PrefsCleanReadPrefs
  \/ PrefsCleanBackup \/ PrefsCleanBackupFail \/ PrefsCleanFilter
  \/ PrefsCleanWrite \/ PrefsCleanWriteFail
  \/ Exit

\* prefs-clean, run repeatedly on one profile directory
SpecClean == InitClean /\ [][NextClean]_vars

TextOf(file) == IF file = None THEN "" ELSE file[1]


(***************************************************************************)
(* Properties of update and prefs-clean (Spec, SpecClean)                  *)
(***************************************************************************)

\* the managed region marker of the data model
OverridesMarker == "/** START: arkencrab overrides */"

\* the backup file the running command names
BackupOf(dir) == fs.backups[dir][l.backup]

\* C1: the step that replaces user.js (resp. prefs.js) is taken only when the
\* backup file of this run exists and holds exactly the content the command read,
\* which is the content the target has on disk just before the step ("" if absent);
\* and no other step changes the target.
C1_BackupBeforeReplace ==
  [][ /\ (pc = "update_write" \/ fs'.files["user.js"] # fs.files["user.js"]) /\ pc' # pc
        => /\ pc = "update_write"
           /\ "userjs_backups" \in fs.dirs
           /\ BackupOf("userjs_backups") = Some(l.existing_user)
           /\ l.existing_user = TextOf(fs.files["user.js"])
      /\ (pc = "clean_write" \/ fs'.files["prefs.js"] # fs.files["prefs.js"]) /\ pc' # pc
        => /\ pc = "clean_write"
           /\ "prefsjs_backups" \in fs.dirs
           /\ BackupOf("prefsjs_backups") = Some(l.existing_prefs)
           /\ l.existing_prefs = TextOf(fs.files["prefs.js"]) ]_vars

\* an update replaced a non-empty user.js by a different document, after an earlier
\* prefs-clean run rewrote prefs.js; both previous contents are in backup files
C1_Witness ==
  /\ pc = "update_report"
  /\ l.existing_user # ""
  /\ fs.files["user.js"] = Some(l.new_user)
  /\ l.new_user # l.existing_user
  /\ BackupOf("userjs_backups") = Some(l.existing_user)
  /\ hist # << >>
  /\ hist[1].read # hist[1].written
  /\ \E t \in 0..MaxClock : fs.backups["prefsjs_backups"][t] = Some(hist[1].read)

\* C2: when update aborts because the fetch failed, nothing under the profile
\* directory was created or modified by the run.
C2_FetchFailureWritesNothing == (pc = "aborted" /\ err = "fetch") => fs = fs0

\* C3: with overrides requested, the document update wrote ends with the marker,
\* two newlines and the content of user-overrides.js.
C3_WrittenEndsWithMarkerAndOverrides ==
  (cmd.name = "update" /\ ~cmd.no_overrides /\ pc \in { "update_report", "done" })
    => EndsWith(TextOf(fs.files["user.js"]),
                OverridesMarker \o "\n\n" \o TextOf(fs.files["user-overrides.js"]))

\* C4: update reports "unchanged" exactly when the previous and the new document
\* are equal, and "changed" whenever they differ, whatever the version tokens.
C4_StatusByDocumentEquality ==
  (pc = "done" /\ report.kind = "updated")
    => /\ report.status = "unchanged" <=> l.existing_user = l.new_user
       /\ l.existing_user # l.new_user => report.status = "changed"

\* the lines of prefs.js as the command read it that contain / do not contain a key
HasKey(line) == \E k \in user_pref_keys(l.user) : Contains(line, k)

LacksKey(line) == ~HasKey(line)

\* every collected key is a quoted literal that user.js holds as user_pref(<key>,
\* and every line of user.js that begins user_pref("...", contributes its key
KeysComeFromUserJs ==
  /\ \A k \in user_pref_keys(l.user) :
       /\ Len(k) >= 2 /\ StartsWith(k, "\"") /\ EndsWith(k, "\"")
       /\ Contains(l.user, "user_pref(" \o k \o ",")
  /\ \A i \in 1..Len(Lines(l.user)) :
       LET ln == Lines(l.user)[i] IN
       (StartsWith(ln, "user_pref(\"") /\ Contains(SubSeq(ln, 12, Len(ln)), "\","))
         => \E k \in user_pref_keys(l.user) : StartsWith(ln, "user_pref(" \o k \o ",")

\* C5: the prefs.js that prefs-clean wrote is exactly the lines of the store that
\* contain no key captured from a user_pref("...", statement of user.js, in their
\* order, each followed by a newline ("\n" alone when none is kept), and the
\* removed count is the number of lines that contain such a key.
C5_PartitionByContainment ==
  (pc = "done" /\ report.kind = "removed")
    => LET lines == Lines(l.existing_prefs) IN
       /\ KeysComeFromUserJs
       /\ fs.files["prefs.js"] = Some(Join(SelectSeq(lines, LacksKey), "\n") \o "\n")
       /\ report.removed = Cardinality({ i \in 1..Len(lines) : HasKey(lines[i]) })
       /\ report.removed + Len(SelectSeq(lines, LacksKey)) = Len(lines)

\* a run that discarded a line only because a key occurs inside it as a value,
\* and kept another line
C5_Witness ==
  /\ pc = "done" /\ report.kind = "removed"
  /\ l.user # ""
  /\ \E i \in 1..Len(Lines(l.existing_prefs)) : Lines(l.existing_prefs)[i] = PrefC
  /\ ~Contains(TextOf(fs.files["prefs.js"]), PrefC)
  /\ report.removed = 1
  /\ Len(l.new_prefs) > 1

\* the latest prefs-clean run read the store the run before it wrote, against the
\* same user.js
SecondClean ==
  /\ Len(hist) = 2
  /\ hist[1].user = hist[2].user
  /\ hist[1].read = hist[2].written

\* C6 as claimed: the second run removes nothing and writes what it read.
C6_SecondRunIsIdentity ==
  SecondClean => hist[1].removed = 0 /\ hist[1].written = hist[1].read

\* C6: the second run removes nothing, and it writes what it read unless a line
\* of what it read ends in a carriage return (which str::lines drops).
C6_SecondRunRemovesNothing ==
  SecondClean =>
    /\ hist[1].removed = 0
    /\ ~Contains(hist[1].read, "\r\n") => hist[1].written = hist[1].read

\* a second run after a first one that did remove lines and kept some
C6_Witness ==
  /\ SecondClean
  /\ hist[2].removed > 0
  /\ Len(hist[2].written) > 1
  /\ hist[1].written = hist[1].read

\* C8: a read that found no file yields the empty document and the command goes
\* on; a command aborts at a read only on another io error.
C8_AbsentFileIsEmpty ==
  /\ (pc = "aborted" /\ err = "read") => last_read.kind = "error"
  /\ last_read.kind = "notfound" =>
       /\ fs0.files[last_read.path] = None
       /\ pc # "aborted" \/ err # "read"
       /\ pc = "update_backup" => l.existing_user = "" /\ l.existing_version = "unknown"
       /\ pc = "clean_read_prefs" => l.user = ""
       /\ pc = "clean_backup" => l.existing_prefs = ""
       /\ (pc = "update_write" /\ last_read.path = "user-overrides.js") =>
            \E t \in Templates :
              l.new_user = (IF cmd.esr THEN rewrite_esr(t) ELSE t) \o "\n"

\* prefs-clean went on to its backup although prefs.js does not exist
C8_Witness ==
  /\ pc = "clean_backup"
  /\ last_read = [ path |-> "prefs.js", kind |-> "notfound" ]
  /\ fs.files["prefs.js"] = None
  /\ fs.files["user.js"] # None

(***************************************************************************)
(* The ESR rewrite on its own (SpecEsr)                                    *)
(***************************************************************************)

\* pieces a template body is put together from
MaxChunks == 3

EsrChunks == { "/", "*", " ", "ESR", "/* ESR", "/* ES" }

EsrInputs == UNION { [1..n -> EsrChunks] : n \in 0..MaxChunks }

InitEsr ==
  /\ fs = Profile(None, None, None)
  /\ Idle
  /\ NoIni
  /\ \E v \in EsrInputs : template = Join(v, "")
  /\ rewritten = << >>

\* if *esr { new_user = new_user.replace("/* ESR", "// ESR") }
EsrRewrite ==
  /\ rewritten = << >>
  /\ rewritten' = << rewrite_esr(template) >>
  /\ UNCHANGED << cmdVars, template, iniVars >>

\* the same rewrite applied to the document it produced
EsrRewriteAgain ==
  /\ Len(rewritten) = 1
  /\ rewritten' = Append(rewritten, rewrite_esr(rewritten[1]))
  /\ UNCHANGED << cmdVars, template, iniVars >>

NextEsr == EsrRewrite \/ EsrRewriteAgain

SpecEsr == InitEsr /\ [][NextEsr]_vars

\* C7: the rewritten template holds no "/* ESR", and rewriting it again returns it
\* unchanged.
C7_EsrRewriteIdempotent ==
  /\ Len(rewritten) >= 1 => ~Contains(rewritten[1], "/* ESR")
  /\ Len(rewritten) = 2 => rewritten[2] = rewritten[1]

\* a template with two disabled markers, one of them after a stray "/", rewritten twice
C7_Witness ==
  /\ Len(rewritten) = 2
  /\ Contains(template, "//* ESR")
  /\ Contains(rewritten[1], "/// ESR")
  /\ Len(template) >= 13

(***************************************************************************)
(* The default profile of profiles.ini (SpecProfiles)                      *)
(***************************************************************************)

\* sections of a profiles.ini
MaxSections == 3

\* a section: its name (None for the general section) and its properties in order
Section(name, props) == [ name |-> name, props |-> props ]

IniSections ==
  { Section(None, << >>),
    Section(Some("General"), << << "Version", "2" >> >>),
    Section(Some("Profile0"), << << "Path", "Profiles/old" >>, << "Default", "1" >> >>),
    Section(Some("Install4F96D1932A9F858E"),
            << << "Default", "Profiles/arkenfox" >>, << "Locked", "1" >> >>),
    Section(Some("InstallCEC6A7B0E0B1C2D3"), << << "Locked", "1" >> >>),
    Section(Some("Install0000000000000000"), << << "Default", "Profiles/other" >> >>) }

IniInputs == UNION { [1..n -> IniSections] : n \in 0..MaxSections }

\* Properties::get: the value of the first property with this key
RECURSIVE PropertiesGet(_, _)
PropertiesGet(props, key) ==
  IF Len(props) = 0 THEN None
  ELSE IF Head(props)[1] = key THEN Some(Head(props)[2])
  ELSE PropertiesGet(Tail(props), key)

\* section_name.is_some_and(|s| s.starts_with("Install"))
IsInstall(section) == section.name # None /\ StartsWith(section.name[1], "Install")

\* src/profiles.rs: find_map stops at the first Install section, whose closure
\* returns Some(properties.get("Default")); flatten; ok_or_eyre
RECURSIVE default_profile_path_in(_)
default_profile_path_in(sections) ==
  IF Len(sections) = 0 THEN None
  ELSE IF IsInstall(Head(sections)) THEN PropertiesGet(Head(sections).props, "Default")
  ELSE default_profile_path_in(Tail(sections))

\* src/main.rs: find_map goes on to the next section when the closure returns
\* None: no name, another name, or no Default key
RECURSIVE default_profile_path_in_main(_)
default_profile_path_in_main(sections) ==
  IF Len(sections) = 0 THEN None
  ELSE IF IsInstall(Head(sections)) /\ PropertiesGet(Head(sections).props, "Default") # None
       THEN PropertiesGet(Head(sections).props, "Default")
  ELSE default_profile_path_in_main(Tail(sections))

InitProfiles ==
  /\ fs = Profile(None, None, None)
  /\ Idle
  /\ NoEsr
  /\ ini \in IniInputs
  /\ found = [ profiles |-> None, main |-> None ]

\* default_profile_path_in of src/profiles.rs; Some(<<path>>) for Ok, Some(<<>>) for Err
ProfilesLookup ==
  /\ found.profiles = None
  /\ found' = [ found EXCEPT !.profiles = Some(default_profile_path_in(ini)) ]
  /\ UNCHANGED << cmdVars, esrVars, ini >>

\* default_profile_path_in of src/main.rs
MainLookup ==
  /\ found.main = None
  /\ found' = [ found EXCEPT !.main = Some(default_profile_path_in_main(ini)) ]
  /\ UNCHANGED << cmdVars, esrVars, ini >>

NextProfiles == ProfilesLookup \/ MainLookup

SpecProfiles == InitProfiles /\ [][NextProfiles]_vars

\* the indices of the Install sections that have a Default key
InstallsWithDefault ==
  { i \in 1..Len(ini) : IsInstall(ini[i]) /\ \E j \in 1..Len(ini[i].props) : ini[i].props[j][1] = "Default" }

\* the Default of the first such section, None when there is none
FirstInstallDefault ==
  IF InstallsWithDefault = {} THEN None
  ELSE LET i == CHOOSE i \in InstallsWithDefault : \A j \in InstallsWithDefault : i <= j
       IN PropertiesGet(ini[i].props, "Default")

\* C10: default_profile_path_in returns the Default of the first section, in file
\* order, that is named Install.. and has a Default key, and fails only when no
\* such section exists.
C10_FirstInstallWithDefault ==
  found.profiles # None => found.profiles[1] = FirstInstallDefault

(***************************************************************************)
(* The override edit workflow (SpecEdit)                                   *)
(***************************************************************************)

\* str::trim
RECURSIVE TrimStart(_)
TrimStart(s) ==
  IF Len(s) > 0 /\ IsSpace(CharAt(s, 1)) THEN TrimStart(SubSeq(s, 2, Len(s))) ELSE s

RECURSIVE TrimEnd(_)
TrimEnd(s) ==
  IF Len(s) > 0 /\ IsSpace(CharAt(s, Len(s))) THEN TrimEnd(SubSeq(s, 1, Len(s) - 1)) ELSE s

Trim(s) == TrimEnd(TrimStart(s))

\* index of the first occurrence of pat at or after i, 0 when there is none
RECURSIVE Find(_, _, _)
Find(s, pat, i) ==
  IF i + Len(pat) - 1 > Len(s) THEN 0
  ELSE IF StartsAt(s, i, pat) THEN i ELSE Find(s, pat, i + 1)

\* the text before the first marker; the whole document when it holds no marker
PreMarkerPrefix(doc) ==
  LET m == Find(doc, OverridesMarker, 1) IN IF m = 0 THEN doc ELSE SubSeq(doc, 1, m - 1)

\* the prefix compared with the untrimmed document
PrefixDiffersUntrimmed(doc) == Trim(PreMarkerPrefix(doc)) # doc

\* Detecting: a managed region exists unless the prefix equals the whole
\* document, both trimmed
HasManagedRegion(doc) == Trim(PreMarkerPrefix(doc)) # Trim(doc)

\* Merge Engine step 3: a blank line, the marker, a blank line, the overrides
AppendMarked(doc, ov) == doc \o "\n" \o OverridesMarker \o "\n\n" \o ov

EditInitialUserJs ==
  { None, Some(""), Some(V128 \o PrefA \o "\n"), Some(V128 \o PrefA), Some("\n" \o PrefA \o "\n\n"),
    Some(AppendMarked(V128 \o PrefA \o "\n", "")),
    Some(AppendMarked(V128 \o PrefA \o "\n", PrefB \o "\n")),
    Some(OverridesMarker) }

\* what the editor can leave in user-overrides.js
EditedOverrides == { "", PrefB \o "\n", PrefC \o "\n" }

InitEdit ==
  /\ \E u \in EditInitialUserJs, o \in InitialOverrides : fs = Profile(u, o, None)
  /\ Idle
  /\ NoEsr
  /\ NoIni

\* Command::Edit { no_apply, editor }
EditStart ==
  /\ pc = "idle"
  /\ runs < MaxRuns
  /\ \E n \in BOOLEAN : cmd' = [ name |-> "edit", no_apply |-> n ]
  /\ pc' = "edit_editing"
  /\ runs' = runs + 1
  /\ fs0' = fs
  /\ l' = NoLocals
  /\ err' = ""
  /\ last_read' = NoRead
  /\ report' = NoReport
  /\ UNCHANGED << fs, clock, hist, esrVars, iniVars >>

\* Editing: the editor may rewrite user-overrides.js, then exits
EditorWrites ==
  \/ fs' = fs
  \/ \E o \in EditedOverrides : fs' = WriteFile("user-overrides.js", o)

\* the editor exits with status 0
EditEditorExits ==
  /\ pc = "edit_editing"
  /\ EditorWrites
  /\ pc' = IF cmd.no_apply THEN "done" ELSE "edit_detecting"
  /\ UNCHANGED << fs0, clock, runs, cmd, l, err, last_read, report, hist, esrVars, iniVars >>

\* the editor exits with another status: the workflow aborts
EditEditorFails ==
  /\ pc = "edit_editing"
  /\ EditorWrites
  /\ Abort("editor")
  /\ UNCHANGED << fs0, clock, runs, cmd, l, last_read, report, hist, esrVars, iniVars >>

\* Detecting: read user.js, look for a managed region
EditDetect ==
  /\ pc = "edit_detecting"
  /\ \E r \in ReadOutcomes("user.js") :
       /\ last_read' = [ path |-> "user.js", kind |-> r.kind ]
       /\ LET res == read_string_with_default(r) IN
          IF ~res.ok
          THEN /\ Abort("read")
               /\ UNCHANGED << l, report >>
          ELSE /\ l' = [ l EXCEPT !.existing_user = res.val ]
               /\ err' = err
               /\ IF HasManagedRegion(res.val)
                  THEN pc' = "edit_reapplying" /\ report' = report
                  ELSE /\ pc' = "done"
                       /\ report' = [ NoReport EXCEPT !.kind = "advise-update" ]
  /\ UNCHANGED << fs, fs0, clock, runs, cmd, hist, esrVars, iniVars >>

\* Reapplying: back the document up, rebuild it from its prefix, the marker and
\* the edited overrides, write it
EditReapply ==
  /\ pc = "edit_reapplying"
  /\ \E r \in ReadOutcomes("user-overrides.js") :
       /\ last_read' = [ path |-> "user-overrides.js", kind |-> r.kind ]
       /\ LET res == read_string_with_default(r) IN
          IF ~res.ok
          THEN /\ Abort("read")
               /\ UNCHANGED << fs, l, report >>
          ELSE LET doc == AppendMarked(PreMarkerPrefix(l.existing_user), res.val) IN
               /\ l' = [ l EXCEPT !.backup = clock, !.new_user = doc ]
               /\ fs' = [ WriteBackup("userjs_backups", clock, l.existing_user)
                            EXCEPT !.files["user.js"] = Some(doc) ]
               /\ report' = [ NoReport EXCEPT !.kind = "applied" ]
               /\ pc' = "done"
               /\ err' = err
  /\ UNCHANGED << fs0, clock, runs, cmd, hist, esrVars, iniVars >>

NextEdit ==
  \/ Tick
  \/ EditStart \/ EditEditorExits \/ EditEditorFails \/ EditDetect \/ EditReapply
  \/ Exit

SpecEdit == InitEdit /\ [][NextEdit]_vars

\* user.js held no marker when the running edit began
StartedWithoutMarker ==
  cmd.name = "edit" /\ ~Contains(TextOf(fs0.files["user.js"]), OverridesMarker)

\* C9: an edit of a profile whose user.js holds no marker never enters
\* Reapplying, writes no backup, leaves user.js as it was, and once the editor
\* has exited normally with applying requested it ends advising the full update.
C9_NoMarkerNoRemerge ==
  StartedWithoutMarker =>
    /\ pc # "edit_reapplying"
    /\ fs.dirs = fs0.dirs /\ fs.backups = fs0.backups
    /\ fs.files["user.js"] = fs0.files["user.js"]
    /\ (pc = "done" /\ ~cmd.no_apply) => report.kind = "advise-update"

\* the workflow ended with the advice on a non-empty user.js that ends in a
\* newline and holds no marker, after the editor changed the overrides
C9_Witness ==
  /\ StartedWithoutMarker
  /\ pc = "done" /\ report.kind = "advise-update"
  /\ EndsWith(l.existing_user, ";\n")
  /\ fs.files["user-overrides.js"] # fs0.files["user-overrides.js"]

====
